---- MODULE Spec2Model ----
(***************************************************************************)
(* State-machine model of the CHIP-8 interpreter in src/chip8emu.cpp (the  *)
(* later iteration of the program, lines 405-833): Memory, Stack, Display, *)
(* Chip8 and the run loop of main.                                         *)
(***************************************************************************)
EXTENDS Integers, Sequences, FiniteSets, TLC

\* ------------------------------------------------------------------------
\* Bounds of the model
\* ------------------------------------------------------------------------
\* longest time the clock may run (SDL_GetTicks, in ms)
MaxTime == 24
\* largest time in ms that passes between two readings of the clock
MaxElapsed == 1
\* deepest call stack the model follows (the code's vector is unbounded)
MaxDepth == 18

\* ------------------------------------------------------------------------
\* Program constants
\* ------------------------------------------------------------------------
MemSize == 4096
ScreenBytes == 256
NumRegs == 16
NumKeys == 16
LoadAddr == 512
cycleMax == 1
U8 == 256
U16 == 65536
\* a 60 Hz period, in whole milliseconds (about 16.67 ms)
TimerPeriod == 1000 \div 60

\* ------------------------------------------------------------------------
\* Bit operations on naturals, as C computes them on unsigned values
\* ------------------------------------------------------------------------
RECURSIVE BitAnd(_, _)
BitAnd(a, b) ==
    IF a = 0 \/ b = 0 THEN 0
    ELSE (a % 2) * (b % 2) + 2 * BitAnd(a \div 2, b \div 2)

RECURSIVE BitXor(_, _)
BitXor(a, b) ==
    IF a = 0 THEN b
    ELSE IF b = 0 THEN a
    ELSE ((a + b) % 2) + 2 * BitXor(a \div 2, b \div 2)

RECURSIVE BitOr(_, _)
BitOr(a, b) ==
    IF a = 0 THEN b
    ELSE IF b = 0 THEN a
    ELSE (IF a % 2 = 1 \/ b % 2 = 1 THEN 1 ELSE 0) + 2 * BitOr(a \div 2, b \div 2)

RECURSIVE Pow2(_)
Pow2(k) == IF k = 0 THEN 1 ELSE 2 * Pow2(k - 1)

Shr(a, k) == a \div Pow2(k)
Shl(a, k) == a * Pow2(k)

\* ------------------------------------------------------------------------
\* Memory
\* ------------------------------------------------------------------------
\* Memory(): memory = {}
ZeroMem == [a \in 0..(MemSize - 1) |-> 0]

\* The sixteen glyphs of loadFont, one 20-bit number each
FontNumbers ==
    << 1022367, 156199, 991119, 991007,
       630545, 1019679, 1019807, 987716,
       1023903, 1023775, 1023897, 958110,
       1017999, 956830, 1019791, 1019784 >>

\* loadFont(): five bytes per glyph, written from address 0 upwards
FontByte(a) ==
    LET n == FontNumbers[(a \div 5) + 1]
        k == a % 5
    IN  IF k < 4
        THEN BitAnd(Shr(n, (3 - k) * 4), 240)
        ELSE BitAnd(Shl(n, 4), 240)

\* loadFont leaving out the fifth row of every glyph
loadFont_FourRows(m) ==
    [a \in 0..(MemSize - 1) |->
        IF a < 80 /\ a % 5 < 4 THEN FontByte(a) ELSE m[a]]

\* loadFont(): the memory after the eighty writes
loadFont(m) == [a \in 0..(MemSize - 1) |-> IF a < 80 THEN FontByte(a) ELSE m[a]]

\* Memory::RB(u16 addr): memory[addr] without a bounds check; a read past the
\* array is undefined and yields the byte g the build happens to find there
RB(m, addr, g) == IF addr < MemSize THEN m[addr] ELSE g

\* Memory::WB(u16 addr, value) on the machine record c: memory[addr] = value
\* without a bounds check; a write past the array is undefined (flagged in ub)
WB(c, addr, v) ==
    IF addr < MemSize
    THEN [c EXCEPT !.mem = [@ EXCEPT ![addr] = v]]
    ELSE [c EXCEPT !.ub = TRUE]

\* ------------------------------------------------------------------------
\* Display
\* ------------------------------------------------------------------------
\* screenPixels{} / Display::clear()
clear == [p \in 0..(ScreenBytes - 1) |-> 0]

\* the byte RAM.RB(addr + k) that predrawSurf reads for row k; addr is the
\* u8 parameter, so the index register arrives truncated to 8 bits
SpriteByte(m, addr16, k) == RB(m, ((addr16 % U8) + k) % U16, 0)

\* drawRow without the branch for x >= 56: the second half of the sprite
\* byte goes to the byte that follows in the array, the first of the next row
drawRow_SpillNextByte(fb, m, addr16, x, y, k) ==
    LET xOffset  == x % 8
        yAdj     == (y + k) % 32
        nextByte == SpriteByte(m, addr16, k)
        maskT    == (Shl(1, xOffset) - 1) % U8
        maskB    == 255 - maskT
        top      == BitAnd(Shr(nextByte, xOffset), maskT)
        bottom   == BitAnd(Shl(nextByte, 8 - xOffset), maskB)
        first    == ((x \div 8) % 8) + yAdj * 8
        second   == (first + 1) % ScreenBytes
    IN  IF xOffset = 0
        THEN [fb EXCEPT ![xOffset + yAdj * 8] = nextByte]
        ELSE LET f1 == [fb EXCEPT ![first] = BitXor(top, fb[first])]
             IN  [f1 EXCEPT ![second] = BitXor(bottom, f1[yAdj * 8]) % U8]

\* one iteration of the loops of predrawSurf, for sprite row k
drawRow(fb, m, addr16, x, y, k) ==
    LET xOffset  == x % 8
        yAdj     == (y + k) % 32
        nextByte == SpriteByte(m, addr16, k)
        maskT    == (Shl(1, xOffset) - 1) % U8
        maskB    == 255 - maskT
        top      == BitAnd(Shr(nextByte, xOffset), maskT)
        bottom   == BitAnd(Shl(nextByte, 8 - xOffset), maskB)
    IN  IF xOffset = 0
        THEN [fb EXCEPT ![xOffset + yAdj * 8] = nextByte]
        ELSE IF x >= 7 * 8
        THEN LET f1 == [fb EXCEPT ![7 + yAdj * 8] = BitXor(top, fb[7 + yAdj * 8])]
             IN  [f1 EXCEPT ![yAdj * 8] = BitXor(bottom, f1[yAdj * 8]) % U8]
        ELSE LET f1 == [fb EXCEPT ![(x \div 8) + yAdj * 8] =
                                     BitXor(top, fb[(x \div 8) + yAdj * 8])]
             IN  [f1 EXCEPT ![(x \div 8) + 1 + yAdj * 8] =
                                     BitXor(bottom, f1[yAdj * 8]) % U8]

\* the passes k .. nBytes - 1 of the loop, in order: the passes up to the
\* middle one are carried out first, the others then work on the framebuffer
\* they leave (unchanged or not)
RECURSIVE drawRows(_, _, _, _, _, _, _)
drawRows(fb, m, addr16, nBytes, x, y, k) ==
    IF k >= nBytes THEN fb
    ELSE IF k + 1 = nBytes THEN drawRow(fb, m, addr16, x, y, k)
    ELSE LET mid  == (k + nBytes) \div 2
             half == drawRows(fb, m, addr16, mid, x, y, k)
         IN  IF half = fb
             THEN drawRows(fb, m, addr16, nBytes, x, y, mid)
             ELSE drawRows(half, m, addr16, nBytes, x, y, mid)

\* Display::predrawSurf(addr, RAM, nBytes, x, y): the framebuffer after the
\* draw and the value returned (collision is never changed from 0)
predrawSurf(fb, m, addr16, nBytes, x, y) ==
    [fb |-> drawRows(fb, m, addr16, nBytes, x, y, 0), collision |-> 0]

\* screenIndices without the branch for x >= 56: the second byte is always
\* the one after the byte of column x
screenIndices_NextByteUnguarded(x, y, k) ==
    LET xOffset == x % 8
        yAdj    == (y + k) % 32
    IN  IF xOffset = 0 THEN {xOffset + yAdj * 8}
        ELSE {(x \div 8) + yAdj * 8, (x \div 8) + 1 + yAdj * 8, yAdj * 8}

\* the indices of screenPixels that pass k of the loops of predrawSurf reads
\* or writes
screenIndices(x, y, k) ==
    LET xOffset == x % 8
        yAdj    == (y + k) % 32
    IN  IF xOffset = 0 THEN {xOffset + yAdj * 8}
        ELSE IF x >= 7 * 8 THEN {7 + yAdj * 8, yAdj * 8}
        ELSE {(x \div 8) + yAdj * 8, (x \div 8) + 1 + yAdj * 8, yAdj * 8}

\* the same for the earlier iteration of predrawSurf, which uses the row
\* y + k as it is: (y + i) * 8
screenIndicesEarly(x, y, k) ==
    LET xOffset == x % 8
        row     == y + k
    IN  IF xOffset = 0 THEN {xOffset + row * 8}
        ELSE IF x >= 7 * 8 THEN {7 + row * 8, row * 8}
        ELSE {(x \div 8) + row * 8, (x \div 8) + 1 + row * 8, row * 8}

\* ------------------------------------------------------------------------
\* Host events and the keypad
\* ------------------------------------------------------------------------
\* the host events the model feeds to SDL_PollEvent: a quit request, and
\* key presses of Escape, of keypad keys and of a key outside the table
QuitEvent == [type |-> "QUIT", sym |-> "NONE", key |-> 0]
KeyDown(s, k) == [type |-> "KEYDOWN", sym |-> s, key |-> k]
\* the keypad keys the model presses (SDLK_1 and SDLK_2)
KeySyms == {1, 2}
HostEvents == {QuitEvent, KeyDown("ESCAPE", 0), KeyDown("OTHER", 0)}
                 \cup {KeyDown("HEX", k) : k \in KeySyms}

\* what one drain of the event queue by checkInput finds: nothing, one
\* event, or two events at once
EventBatches ==
    {<< >>} \cup {<< e >> : e \in HostEvents}
            \cup {<< KeyDown("HEX", 2), KeyDown("HEX", 1) >>,
                  << KeyDown("HEX", 1), QuitEvent >>}

\* the body of the loop of checkInput for one event, on h = [io, running]
handleEvent(h, e) ==
    LET h1 == IF e.type = "QUIT" THEN [h EXCEPT !.running = FALSE] ELSE h
    IN  IF e.type # "KEYDOWN" THEN h1
        ELSE IF e.sym = "ESCAPE" THEN [h1 EXCEPT !.running = FALSE]
        ELSE IF e.sym = "HEX" THEN [h1 EXCEPT !.io[e.key] = TRUE]
        ELSE [h1 EXCEPT !.io = [k \in 0..(NumKeys - 1) |-> FALSE]]

\* Chip8::checkInput(): drains the pending host events
RECURSIVE checkInput(_, _)
checkInput(h, evs) ==
    IF evs = << >> THEN h
    ELSE checkInput(handleEvent(h, Head(evs)), Tail(evs))

\* one pass of the loop of getPressedKey from key = 0: the key returned, or
\* 16 when the pass ends without one, and the highest index of io it read.
\* With no flag set the pass reads io[16], one past the array; b is what
\* that undefined read yields
getPressedKey(keys, b) ==
    LET set == {k \in 0..(NumKeys - 1) : keys[k]}
        low == CHOOSE k \in set : \A l \in set : k <= l
    IN  IF set # {}
        THEN [found |-> TRUE, key |-> low, scanned |-> low]
        ELSE [found |-> b, key |-> NumKeys, scanned |-> NumKeys]

\* Chip8::keyIsPressed(key): io[key] without a bounds check; b is what the
\* undefined read yields for key >= 16
keyIsPressed(keys, key, b) == IF key < NumKeys THEN keys[key] ELSE b

\* ------------------------------------------------------------------------
\* Chip8::exe
\* ------------------------------------------------------------------------
\* the machine record c the instruction handlers work on:
\*   regs, dt, st, i, pc, stack, fb (screenPixels), mem (RAM), ub
\* nd carries what the environment decides: g (a garbage 16-bit value read
\* by undefined behaviour), r (the byte rand() % 256 yields), b (the outcome
\* of an out-of-bounds read of io)
n0(opcode) == opcode \div 4096
n1(opcode) == (opcode \div 256) % 16
n2(opcode) == (opcode \div 16) % 16
n3(opcode) == opcode % 16
kk(opcode) == opcode % 256
nnn(opcode) == opcode % 4096

skip(c) == [c EXCEPT !.pc = (@ + 2) % U16]
setReg(c, x, v) == [c EXCEPT !.regs[x] = v % U8]
flag(cond) == IF cond THEN 1 ELSE 0

\* case 0x0, n3 = 0xe: pc = stack.back(); stack.pop_back(). On an empty
\* vector both calls are undefined: pc receives garbage
exeRET(c, nd) ==
    IF c.stack # << >>
    THEN [c EXCEPT !.pc = c.stack[Len(c.stack)],
                   !.stack = SubSeq(c.stack, 1, Len(c.stack) - 1)]
    ELSE [c EXCEPT !.pc = nd.g, !.ub = TRUE]

\* case 0x1: pc = opcode & 0x0fff
exeJP(c, opcode) == [c EXCEPT !.pc = nnn(opcode)]

\* exeCALL pushing the address of the next instruction instead of pc
exeCALL_PushNext(c, opcode) ==
    [c EXCEPT !.stack = Append(c.stack, (c.pc + 2) % U16), !.pc = nnn(opcode)]

\* case 0x2: stack.push_back(pc); pc = opcode & 0x0fff
exeCALL(c, opcode) ==
    [c EXCEPT !.stack = Append(c.stack, c.pc), !.pc = nnn(opcode)]

\* case 0xb: pc = regs[0] + (opcode & 0x0fff)
exeJPV0(c, opcode) == [c EXCEPT !.pc = (c.regs[0] + nnn(opcode)) % U16]

\* case 0x8: the arithmetic group, statement by statement
exeALU(c, opcode) ==
    LET x == n1(opcode)
        y == n2(opcode)
        r == c.regs
    IN  CASE n3(opcode) = 0 -> setReg(c, x, r[y])
          [] n3(opcode) = 1 -> setReg(c, x, BitOr(r[x], r[y]))
          [] n3(opcode) = 2 -> setReg(c, x, BitAnd(r[x], r[y]))
          [] n3(opcode) = 3 -> setReg(c, x, BitXor(r[x], r[y]))
          [] n3(opcode) = 4 ->
                LET c1 == setReg(c, x, r[x] + r[y])
                IN  setReg(c1, 15, flag(c1.regs[x] < c1.regs[y]))
          [] n3(opcode) = 5 ->
                LET c1 == setReg(c, 15, flag(r[x] > r[y]))
                IN  setReg(c1, x, c1.regs[x] + U8 - c1.regs[y])
          [] n3(opcode) = 6 ->
                LET c1 == setReg(c, 15, flag(BitAnd(r[x], 1) # 0))
                IN  setReg(c1, x, Shr(c1.regs[x], 1))
          [] n3(opcode) = 7 ->
                LET c1 == setReg(c, 15, flag(r[y] > r[x]))
                IN  setReg(c1, x, c1.regs[y] + U8 - c1.regs[x])
          [] n3(opcode) = 14 ->
                LET c1 == setReg(c, 15, flag(BitAnd(r[x], 32768) # 0))
                IN  setReg(c1, x, Shl(c1.regs[x], 1))
          [] OTHER -> c

\* case 0xd: disp.predrawSurf(i, RAM, n3, regs[n1], regs[n2]); the value
\* returned is dropped. disp.draw() only presents the framebuffer
exeDRW(c, opcode) ==
    [c EXCEPT !.fb = predrawSurf(c.fb, c.mem, c.i, n3(opcode),
                                 c.regs[n1(opcode)], c.regs[n2(opcode)]).fb]

\* case 0xe: skip on key pressed (n2 = 9) or not pressed (n2 = 0xa)
exeKEY(c, keys, opcode, nd) ==
    LET key  == c.regs[n1(opcode)]
        c1   == IF key < NumKeys THEN c ELSE [c EXCEPT !.ub = TRUE]
        down == keyIsPressed(keys, key, nd.b)
    IN  CASE n2(opcode) = 9  -> IF down THEN skip(c1) ELSE c1
          [] n2(opcode) = 10 -> IF ~down THEN skip(c1) ELSE c1
          [] OTHER -> c

\* case 0x55: for (j = 0; j < regs[n1]; ++j) RAM.WB(i + j, regs[j]); regs[j]
\* with j >= 16 reads past the register array. The passes j..cnt-1 write to
\* distinct addresses (cnt <= 255), so the memory after the loop holds, at
\* address a, the value of pass (a - i) mod 2^16 if that is one of the
\* passes; a pass with j >= 16 or with an address past the array is undefined
storeRegs(c, cnt, j, nd) ==
    LET passes  == j..(cnt - 1)
        addr(p) == (c.i + p) % U16
        v(p)    == IF p < NumRegs THEN c.regs[p] ELSE nd.g % U8
        pass(a) == (a + U16 - c.i) % U16
    IN  [c EXCEPT
            !.mem = [a \in 0..(MemSize - 1) |->
                        IF pass(a) \in passes THEN v(pass(a)) ELSE c.mem[a]],
            !.ub  = \/ c.ub
                    \/ \E p \in passes : p >= NumRegs \/ addr(p) >= MemSize]

\* case 0x65: for (j = 0; j < regs[n1]; ++j) regs[j] = RAM.RB(i + j); the
\* bound regs[n1] is read again on every pass, and regs[j] with j >= 16
\* writes past the register array
RECURSIVE loadRegs(_, _, _, _)
loadRegs(c, x, j, nd) ==
    IF j >= c.regs[x] THEN c
    ELSE LET a  == (c.i + j) % U16
             v  == RB(c.mem, a, nd.g % U8)
             c1 == IF a < MemSize THEN c ELSE [c EXCEPT !.ub = TRUE]
         IN  IF j < NumRegs
             THEN loadRegs(setReg(c1, j, v), x, j + 1, nd)
             ELSE loadRegs([c1 EXCEPT !.ub = TRUE], x, j + 1, nd)

\* case 0xf, except 0x0a (LD Vx, K), which op handles through getPressedKey
exeMISC(c, opcode, nd) ==
    LET x   == n1(opcode)
        sel == n2(opcode) * 16 + n3(opcode)
        v   == c.regs[x]
    IN  CASE sel = 7   -> setReg(c, x, c.dt)
          [] sel = 21  -> [c EXCEPT !.dt = v]
          [] sel = 24  -> [c EXCEPT !.st = v]
          [] sel = 30  -> [c EXCEPT !.i = BitAnd(c.i, v)]
          [] sel = 41  -> [c EXCEPT !.i = v]
          [] sel = 51  ->
                WB(WB(WB(c, c.i, (v \div 100) % 10),
                      (c.i + 1) % U16, (v \div 10) % 10),
                   (c.i + 2) % U16, v % 10)
          [] sel = 85  -> storeRegs(c, v, 0, nd)
          [] sel = 101 -> loadRegs(c, x, 0, nd)
          [] OTHER -> c

\* Chip8::exe(opcode) for every opcode but LD Vx, K
exe(c, keys, opcode, nd) ==
    LET x == n1(opcode)
        y == n2(opcode)
    IN  CASE n0(opcode) = 0 ->
                (CASE n3(opcode) = 0  -> [c EXCEPT !.fb = clear]
                   [] n3(opcode) = 14 -> exeRET(c, nd)
                   [] OTHER -> c)
          [] n0(opcode) = 1  -> exeJP(c, opcode)
          [] n0(opcode) = 2  -> exeCALL(c, opcode)
          [] n0(opcode) = 3  -> IF c.regs[x] = kk(opcode) THEN skip(c) ELSE c
          [] n0(opcode) = 4  -> IF c.regs[x] # kk(opcode) THEN skip(c) ELSE c
          [] n0(opcode) = 5  -> IF c.regs[x] = c.regs[y] THEN skip(c) ELSE c
          [] n0(opcode) = 6  -> setReg(c, x, kk(opcode))
          [] n0(opcode) = 7  -> setReg(c, x, c.regs[x] + kk(opcode))
          [] n0(opcode) = 8  -> exeALU(c, opcode)
          [] n0(opcode) = 9  -> IF c.regs[x] # c.regs[y] THEN skip(c) ELSE c
          [] n0(opcode) = 10 -> [c EXCEPT !.i = nnn(opcode)]
          [] n0(opcode) = 11 -> exeJPV0(c, opcode)
          [] n0(opcode) = 12 -> setReg(c, x, BitAnd(nd.r, kk(opcode)))
          [] n0(opcode) = 13 -> exeDRW(c, opcode)
          [] n0(opcode) = 14 -> exeKEY(c, keys, opcode, nd)
          [] OTHER -> exeMISC(c, opcode, nd)

\* the opcode of LD Vx, K (Fx0A)
IsLDK(opcode) == n0(opcode) = 15 /\ n2(opcode) * 16 + n3(opcode) = 10

\* Chip8::tick() on the timers: both are decremented on every call
tickTimers(c) ==
    [c EXCEPT !.dt = IF @ > 0 THEN @ - 1 ELSE @,
              !.st = IF @ > 0 THEN @ - 1 ELSE @]

\* Chip8::tick() on the clock: the clock reads currentTick = start + e, and
\* tickTime = tickStart - currentTick is computed in Uint32: it is 0 when no
\* time has passed and 2^32 - e otherwise, which no cycleMax exceeds (e stays
\* far below 2^31). The result is the value SDL_GetTicks() returns at the
\* end, after the SDL_Delay if any
tickClock(start, e) ==
    LET currentTick == start + e
        early       == e = 0 /\ 0 < cycleMax
        delay       == IF early THEN cycleMax - 0 ELSE 0
    IN  currentTick + delay

\* ------------------------------------------------------------------------
\* State
\* ------------------------------------------------------------------------
VARIABLES
    regs,           \* Chip8::regs, V0..VF
    io,             \* Chip8::io, the keypad flags
    dt, st,         \* delay and sound timers
    i,              \* Chip8::i, the index register
    pc,             \* program counter
    stack,          \* Chip8::stack, return addresses
    tickStart,      \* Chip8::tickStart
    screenPixels,   \* Display::screenPixels
    memory,         \* Memory::memory (Chip8::RAM)
    running,        \* Chip8::running
    phase,          \* where main is: "load", "run" (top of the while loop),
                    \* "wait" (inside getPressedKey), "done" (loop left)
    waitReg,        \* n1 of the LD Vx, K that is waiting
    ub,             \* undefined behaviour has been executed
    lastOp,         \* history: opcode of the last instruction fetched, -1 if none
    pre,            \* history: the machine before the last instruction fetched
    pre2,           \* history: the opcode of the instruction before it and
                    \* the machine before that one
    memDelta,       \* history: the addresses the last instruction changed,
                    \* each with the byte it held before
    spriteRead,     \* history: the bytes the last predrawSurf read
    keyScan,        \* history: highest index of io the last getPressedKey pass read
    ldClock         \* history: [set, at, v] of the last LD DT, Vx: the clock
                    \* when it was fetched and the value it stored

vars == << regs, io, dt, st, i, pc, stack, tickStart, screenPixels, memory,
           running, phase, waitReg, ub, lastOp, pre, pre2, memDelta,
           spriteRead, keyScan, ldClock >>

\* the machine record of the current state
Cur ==
    [regs |-> regs, dt |-> dt, st |-> st, i |-> i, pc |-> pc, stack |-> stack,
     fb |-> screenPixels, mem |-> memory, ub |-> ub]

\* what the history keeps of a machine record
Snapshot(c) ==
    [regs |-> c.regs, dt |-> c.dt, i |-> c.i, pc |-> c.pc, stack |-> c.stack,
     fb |-> c.fb]

\* the addresses where memory m differs from m0, with the bytes of m0
Delta(m0, m) ==
    IF m = m0 THEN {}
    ELSE {<< a, m0[a] >> : a \in {b \in 0..(MemSize - 1) : m[b] # m0[b]}}

\* Chip8 sys: the member initializers and Chip8(), which reads the clock and
\* loads the font
Init ==
    /\ regs = [r \in 0..(NumRegs - 1) |-> 0]
    /\ io = [k \in 0..(NumKeys - 1) |-> FALSE]
    /\ dt = 0
    /\ st = 0
    /\ i = 0
    /\ pc = LoadAddr
    /\ stack = << >>
    /\ tickStart = 0
    /\ screenPixels = clear
    /\ memory = loadFont(ZeroMem)
    /\ running = TRUE
    /\ phase = "load"
    /\ waitReg = 0
    /\ ub = FALSE
    /\ lastOp = -1
    /\ pre = Snapshot(Cur)
    /\ pre2 = [op |-> -1, m |-> Snapshot(Cur)]
    /\ memDelta = {}
    /\ spriteRead = << >>
    /\ keyScan = 0
    /\ ldClock = [set |-> FALSE, at |-> 0, v |-> 0]

\* ------------------------------------------------------------------------
\* main: loading the program
\* ------------------------------------------------------------------------
\* the loop of main that copies the file to memory from 0x200 upwards
loadBytes(m, bytes, memAddr) ==
    [a \in 0..(MemSize - 1) |->
        IF a \in memAddr..(memAddr + Len(bytes) - 1)
        THEN bytes[a - memAddr + 1]
        ELSE m[a]]

Load(roms) ==
    /\ phase = "load"
    /\ \E rom \in roms : memory' = loadBytes(memory, rom, LoadAddr)
    /\ phase' = "run"
    /\ UNCHANGED << regs, io, dt, st, i, pc, stack, tickStart, screenPixels,
                    running, waitReg, ub, lastOp, pre, pre2, memDelta,
                    spriteRead, keyScan, ldClock >>

\* ------------------------------------------------------------------------
\* Chip8::op and the run loop
\* ------------------------------------------------------------------------
GarbageWords == {0, 65535}
RandBytes == {0, 165, 255}
\* the times in ms the clock is found to have advanced since tickStart
ElapsedMs == 0..MaxElapsed

\* the choices of the environment that can matter to this instruction
NdFor(c, keys, opcode) ==
    LET sel == n2(opcode) * 16 + n3(opcode)
        useG == \/ n0(opcode) = 0 /\ n3(opcode) = 14 /\ c.stack = << >>
                \/ n0(opcode) = 15 /\ sel \in {85, 101}
        useR == n0(opcode) = 12
        useB == \/ n0(opcode) = 14 /\ c.regs[n1(opcode)] >= NumKeys
                \/ IsLDK(opcode) /\ \A k \in 0..(NumKeys - 1) : ~keys[k]
    IN  [g : IF useG THEN GarbageWords ELSE {0},
         r : IF useR THEN RandBytes ELSE {0},
         b : IF useB THEN BOOLEAN ELSE {FALSE}]

\* the end of op once exe has returned: pc += 2; tick(); and the test of the
\* while loop of main
Finish(c, h, e) ==
    LET c1 == tickTimers(skip(c))
    IN  /\ regs' = c1.regs
        /\ dt' = c1.dt
        /\ st' = c1.st
        /\ i' = c1.i
        /\ pc' = c1.pc
        /\ stack' = c1.stack
        /\ screenPixels' = c1.fb
        /\ memory' = c1.mem
        /\ memDelta' = Delta(memory, c1.mem)
        /\ ub' = c1.ub
        /\ io' = h.io
        /\ running' = h.running
        /\ tickStart' = tickClock(tickStart, e)
        /\ phase' = IF h.running THEN "run" ELSE "done"

\* the instruction stays inside getPressedKey: nothing of op after exe runs
Block(h, x) ==
    /\ io' = h.io
    /\ running' = h.running
    /\ phase' = "wait"
    /\ waitReg' = x
    /\ memDelta' = {}
    /\ UNCHANGED << regs, dt, st, i, pc, stack, screenPixels, memory, ub,
                    tickStart >>

\* the word op fetches: (RAM.RB(pc) << 8) | RAM.RB(pc + 1)
Fetch(g) ==
    RB(memory, pc, g % U8) * 256 + RB(memory, (pc + 1) % U16, g \div 256)

FetchGarbage == IF pc + 1 < MemSize THEN {0} ELSE GarbageWords

\* one iteration of while (sys.running) sys.op()
Op ==
    /\ phase = "run"
    /\ tickStart < MaxTime
    /\ \E evs \in EventBatches, e \in ElapsedMs, fg \in FetchGarbage :
         LET opcode == Fetch(fg)
             h      == checkInput([io |-> io, running |-> running], evs)
             c0     == IF pc + 1 < MemSize THEN Cur ELSE [Cur EXCEPT !.ub = TRUE]
         IN  /\ n0(opcode) = 2 => Len(stack) < MaxDepth
             /\ lastOp' = opcode
             /\ pre' = Snapshot(Cur)
             /\ pre2' = [op |-> lastOp, m |-> pre]
             /\ spriteRead' = IF n0(opcode) = 13
                              THEN [k \in 1..n3(opcode) |->
                                        SpriteByte(memory, i, k - 1)]
                              ELSE << >>
             /\ ldClock' = IF n0(opcode) = 15 /\ kk(opcode) = 21
                           THEN [set |-> TRUE, at |-> tickStart,
                                 v |-> regs[n1(opcode)]]
                           ELSE ldClock
             /\ \E nd \in NdFor(c0, h.io, opcode) :
                  IF IsLDK(opcode)
                  THEN LET k == getPressedKey(h.io, nd.b)
                       IN  /\ keyScan' = k.scanned
                           /\ IF k.found
                              THEN /\ Finish(setReg(c0, n1(opcode), k.key), h, e)
                                   /\ waitReg' = waitReg
                              ELSE Block(h, n1(opcode))
                  ELSE /\ Finish(exe(c0, h.io, opcode, nd), h, e)
                       /\ UNCHANGED << waitReg, keyScan >>

\* one more pass of the loop of getPressedKey: key = 0; checkInput(); and the
\* scan of io; when a key is returned, the rest of exe and of op
WaitPoll ==
    /\ phase = "wait"
    /\ \E evs \in EventBatches, e \in ElapsedMs, b \in BOOLEAN :
         LET h == checkInput([io |-> io, running |-> running], evs)
             k == getPressedKey(h.io, b)
         IN  /\ keyScan' = k.scanned
             /\ IF k.found
                THEN /\ Finish(setReg(Cur, waitReg, k.key), h, e)
                     /\ waitReg' = waitReg
                ELSE Block(h, waitReg)
             /\ UNCHANGED << lastOp, pre, pre2, spriteRead, ldClock >>

\* ------------------------------------------------------------------------
\* Programs (the contents of the file main loads)
\* ------------------------------------------------------------------------
\* the two bytes of an instruction word, big-endian
W(word) == << word \div 256, word % 256 >>

\* the bytes of a sequence of instruction words
Words(ws) == [k \in 1..(2 * Len(ws)) |-> W(ws[(k + 1) \div 2])[2 - (k % 2)]]

\* 1206 JP 0x206, over zeroed words
RomJump == Words(<< 4614 >>)
\* 6004 LD V0,4; B300 JP V0,0x300
RomJumpV0 == Words(<< 24580, 45824 >>)
\* 2202 CALL 0x202; 1200 JP 0x200; 00EE RET
RomCallRet == Words(<< 8706, 4608, 238 >>)
\* 2204 CALL; 1200 JP; 0; 220A CALL; 00EE RET; 0; 00EE RET: two nested calls
RomNested == Words(<< 8708, 4608, 0, 8714, 238, 0, 238 >>)
\* ChainLen words 2200, 2202, ...: each CALL nnn sits at nnn, so that the
\* next word runs one level deeper; then 00EE RET
ChainLen == 17
RomChain == Words([k \in 1..ChainLen |-> 8704 + 2 * (k - 1)] \o << 238 >>)
\* F10A LD V1,K; 1200 JP 0x200
RomKeyWait == Words(<< 61706, 4608 >>)
\* 6105 LD V1,5; F115 LD DT,V1; F207 LD V2,DT; 1204 JP 0x204
RomTimer == Words(<< 24837, 61717, 61959, 4612 >>)

CtlRoms == {RomJump, RomJumpV0, RomCallRet, RomNested, RomChain,
            RomKeyWait, RomTimer}

\* 60xx LD V0,x; 61yy LD V1,y; Annn LD I,addr; D01n DRW; D01n DRW;
\* 1208 JP 0x208; two words of padding; the sprite bytes FF 81 at 0x210
RomDraw(x, y, addr, n) ==
    Words(<< 24576 + x, 24832 + y, 40960 + addr, 53264 + n, 53264 + n,
             4616, 0, 0, 65409 >>)

\* 60FF LD V0,0xFF; 6101 LD V1,1; A080 LD I,0x080; F155 LD [I],V1;
\* 6004 LD V0,4; 6100 LD V1,0; D011 DRW; 120C JP 0x20C: stores the byte FF
\* at 0x080 and draws it at (4, 0)
RomDrawFF == Words(<< 24831, 24833, 41088, 61781, 24580, 24832, 53265, 4620 >>)

\* F00A LD V0,K; A000 LD I,0; D005 DRW V0,V0,5; 1204 JP 0x204: draws the
\* glyph of 0 at the key pressed
RomDrawKey == Words(<< 61450, 40960, 53253, 4612 >>)

DrawXs == {0, 4, 8, 57, 62}
DrawYs == {0, 31}
DrawAddrs == {0, 5, 528}
DrawLens == {1, 2}

DrawRoms ==
    {RomDraw(x, y, a, n) : x \in DrawXs, y \in DrawYs, a \in DrawAddrs,
                           n \in DrawLens}
        \cup {RomDrawFF, RomDrawKey}

\* 6F03 LD VF,3; 6xaa LD Vx,a; 6ybb LD Vy,b; 8xyn; 1206 JP 0x206: one
\* instruction of the arithmetic group on chosen operands, then a loop
RomAlu(x, y, a, b, n) ==
    Words(<< 24576 + 15 * 256 + 3, 24576 + x * 256 + a, 24576 + y * 256 + b,
             32768 + x * 256 + y * 16 + n, 4614 >>)

\* F10A LD V1,K; 6264 LD V2,100; 8124 ADD V1,V2; 1204 JP 0x204: adds to the
\* key pressed
RomAluKey == Words(<< 61706, 25188, 33060, 4612 >>)

\* the operand register x, the registers y (x itself, another one, VF), the
\* values a and b, and the instructions ADD (4), SUB (5), SHL (0xe)
AluX == 1
AluYs == {1, 2, 15}
AluPairs == {<< 200, 100 >>, << 10, 20 >>, << 5, 10 >>, << 10, 5 >>,
             << 100, 200 >>}
AluOps == {4, 5, 14}

AluRoms ==
    {RomAlu(AluX, y, ab[1], ab[2], n) : y \in AluYs, ab \in AluPairs,
                                        n \in AluOps}
        \cup {RomAluKey}

\* 60aa LD V0,a; 61bb LD V1,b; 62cc LD V2,c; A300 LD I,0x300; Fx55
\* LD [I],Vx; 1208 JP 0x208: stores registers at 0x300, then loops
RomStore(x, a, b, c) ==
    Words(<< 24576 + a, 24832 + b, 25088 + c, 41728, 61525 + x * 256, 4616 >>)

\* 60ss LD V0,s; A300 LD I,0x300; F033 LD B,V0 (the digits of s at 0x300);
\* 60aa; 61bb; 62cc; Fx65 LD Vx,[I]; 120C JP 0x20C: loads registers from
\* the three digits, then loops
RomLoad(x, s, a, b, c) ==
    Words(<< 24576 + s, 41728, 61491, 24576 + a, 24832 + b, 25088 + c,
             61541 + x * 256, 4620 >>)

\* 60vv LD V0,v; Annn LD I,addr; F033 LD B,V0; 1204 JP 0x204: stores the
\* three digits of v at addr, then loops
RomBcd(addr, v) == Words(<< 24576 + v, 40960 + addr, 61491, 4612 >>)

\* 61vv LD V1,v; F129 LD F,V1; Annn LD I,addr; F11E ADD I,V1; 1206 JP 0x206
RomIndex(v, addr) == Words(<< 24832 + v, 61737, 40960 + addr, 61726, 4614 >>)

\* 1FFC JP 0xFFC: the program counter runs off the end of memory
RomRunOff == Words(<< 8188 >>)

\* F10A LD V1,K; A300 LD I,0x300; F133 LD B,V1; 1204 JP 0x204: stores the
\* digits of the key pressed
RomBcdKey == Words(<< 61706, 41728, 61747, 4612 >>)

\* the register index x of Fx55 and Fx65, the registers V0, V1, V2 before
\* them, and the bytes whose digits Fx65 loads
XferXs == {0, 2}
XferRegs == {<< 17, 34, 1 >>, << 3, 34, 51 >>}
XferDigits == {123, 213}
\* where LD B stores: free memory, the font, the last byte of memory
BcdAddrs == {768, 0, 4095}
\* the operands of LD F and ADD I: Vx and the index register
IndexPairs == {<< 0, 0 >>, << 3, 768 >>, << 15, 255 >>}

MemRoms ==
    {RomStore(x, r[1], r[2], r[3]) : x \in XferXs, r \in XferRegs}
        \cup {RomLoad(x, d, r[1], r[2], r[3]) :
                  x \in XferXs, d \in XferDigits, r \in {<< 3, 34, 1 >>}}
        \cup {RomBcd(a, 123) : a \in BcdAddrs}
        \cup {RomIndex(p[1], p[2]) : p \in IndexPairs}
        \cup {RomRunOff, RomBcdKey}

\* 6103 LD V1,3; 6203 LD V2,3; A000 LD I,0; D125 DRW V1,V2,5; the word w;
\* 120A JP 0x20A twice: draws the glyph of 0, then steps w, then loops
RomWord(w) == Words(<< 24835, 25091, 40960, 53541, w, 4618, 4618 >>)

\* words outside the instruction table: 0000, 0120, 5121, 9121, 8128, E1A5,
\* F1FF
OddWords == {0, 288, 20769, 37153, 33064, 57765, 61951}

\* 00EE RET as the first instruction, on the empty call stack
RomRetEmpty == Words(<< 238 >>)

\* 61vv LD V1,v; E19E SKP V1 or E1A1 SKNP V1; 1202 JP 0x202 twice
RomKeySkip(v, w) == Words(<< 24832 + v, w, 4610, 4610 >>)
\* the key numbers tested, and SKP V1 and SKNP V1
SkipKeys == {1, 16, 255}
SkipWords == {57758, 57761}

DecRoms ==
    {RomWord(w) : w \in OddWords}
        \cup {RomKeySkip(v, w) : v \in SkipKeys, w \in SkipWords}
        \cup {RomRetEmpty, RomKeyWait}

\* 61xx LD V1,x; 62yy LD V2,y; A000 LD I,0; D12n DRW V1,V2,n; 1206 JP 0x206:
\* draws n rows of the font at any coordinates, then loops
RomDrawAt(x, y, n) ==
    Words(<< 24832 + x, 25088 + y, 40960, 53536 + n, 4614 >>)

\* coordinates at the edges of the branches of predrawSurf and of the u8
\* range, and sprite heights
EdgeXs == {0, 248, 1, 55, 57, 255}
EdgeYs == {0, 31, 32, 255}
EdgeLens == {1, 15}

EdgeRoms ==
    {RomDrawAt(x, y, n) : x \in EdgeXs, y \in EdgeYs, n \in EdgeLens}
        \cup {RomDrawKey}

LoadCtl == Load(CtlRoms)
LoadDraw == Load(DrawRoms)
LoadAlu == Load(AluRoms)
LoadMem == Load(MemRoms)
LoadDec == Load(DecRoms)
LoadEdge == Load(EdgeRoms)

\* ------------------------------------------------------------------------
\* Specifications
\* ------------------------------------------------------------------------
\* control flow, keypad and timer programs
Next == LoadCtl \/ Op \/ WaitPoll
Spec == Init /\ [][Next]_vars

\* drawing programs
NextDraw == LoadDraw \/ Op \/ WaitPoll
SpecDraw == Init /\ [][NextDraw]_vars

\* arithmetic programs
NextAlu == LoadAlu \/ Op \/ WaitPoll
SpecAlu == Init /\ [][NextAlu]_vars

\* memory and index register programs
NextMem == LoadMem \/ Op \/ WaitPoll
SpecMem == Init /\ [][NextMem]_vars

\* decoding programs: words outside the table, RET on the empty stack, key
\* tests
NextDec == LoadDec \/ Op \/ WaitPoll
SpecDec == Init /\ [][NextDec]_vars

\* drawing at the edges of the coordinate range
NextEdge == LoadEdge \/ Op \/ WaitPoll
SpecEdge == Init /\ [][NextEdge]_vars

\* ------------------------------------------------------------------------
\* Properties
\* ------------------------------------------------------------------------
\* the last instruction fetched has run to the end of op
Stepped == lastOp # -1 /\ phase # "wait"
IsCALL(o) == o # -1 /\ n0(o) = 2
IsRET(o) == o = 238
IsDRW(o) == o # -1 /\ n0(o) = 13
Top(stk) == stk[Len(stk)]
Front(stk) == SubSeq(stk, 1, Len(stk) - 1)

\* C1: after a step that executes JP nnn, CALL nnn, RET or JP V0,nnn, pc is
\* exactly the target of the instruction (nnn, nnn, the address popped,
\* V0 + nnn): the pc += 2 of op is not applied to these instructions.
C1_JumpLandsOnTarget ==
    Stepped =>
        /\ n0(lastOp) = 1 => pc = nnn(lastOp)
        /\ n0(lastOp) = 2 => pc = nnn(lastOp)
        /\ (IsRET(lastOp) /\ pre.stack # << >>) => pc = Top(pre.stack)
        /\ n0(lastOp) = 11 => pc = pre.regs[0] + nnn(lastOp)

\* C2: the call stack is last-in-first-out across steps. A CALL pushes one
\* entry and a RET pops the newest one and lands 2 past the address it
\* holds; no other instruction touches the stack; so a RET stepped right
\* after a CALL at address A leaves pc = A + 2 and the stack as it was before
\* the call, at any depth (no limit of 16 entries).
C2_StackLIFO ==
    Stepped =>
        /\ IsCALL(lastOp) =>
              /\ Len(stack) = Len(pre.stack) + 1
              /\ Front(stack) = pre.stack
              /\ Top(stack) = pre.pc
        /\ (IsRET(lastOp) /\ pre.stack # << >>) =>
              /\ stack = Front(pre.stack)
              /\ pc = (Top(pre.stack) + 2) % U16
              /\ IsCALL(pre2.op) =>
                    /\ pc = (pre2.m.pc + 2) % U16
                    /\ stack = pre2.m.stack
              /\ (IsRET(pre2.op) /\ Len(pre2.m.stack) >= 2) =>
                    /\ stack = Front(Front(pre2.m.stack))
                    /\ pc = (Top(Front(pre2.m.stack)) + 2) % U16
        /\ (~IsCALL(lastOp) /\ ~IsRET(lastOp)) => stack = pre.stack

\* a RET stepped right after the CALL that made the stack 17 deep
C2_Witness ==
    /\ Stepped
    /\ IsRET(lastOp)
    /\ IsCALL(pre2.op)
    /\ Len(pre.stack) > 16
    /\ pc = pre2.m.pc + 2

\* C3: LD Vx,K blocks while no keypad flag 0..15 is set (the step does not
\* complete and pc does not advance); once a flag is set the step completes,
\* pc advances by 2 and Vx is the lowest index 0..15 whose flag is set; only
\* the indices 0..15 of io are ever examined.
C3_KeyWaitBlocks ==
    /\ keyScan <= NumKeys - 1
    /\ phase = "wait" =>
          /\ pc = pre.pc
          /\ \A k \in 0..(NumKeys - 1) : ~io[k]
    /\ (Stepped /\ IsLDK(lastOp)) =>
          /\ \E k \in 0..(NumKeys - 1) : io[k]
          /\ pc = (pre.pc + 2) % U16
          /\ regs[n1(lastOp)] \in 0..(NumKeys - 1)
          /\ io[regs[n1(lastOp)]]
          /\ \A k \in 0..(NumKeys - 1) : k < regs[n1(lastOp)] => ~io[k]

\* C4: a quit event that arrives while LD Vx,K waits with no key pressed is
\* seen inside the wait and ends the run loop without a later key press (the
\* machine is never left waiting with running false); and once running is
\* false the loop has been left, so that no further instruction is fetched.
C4_QuitEndsWait ==
    /\ phase = "wait" => running
    /\ (~running /\ phase # "wait") => phase = "done"

\* C5: the timers decay with the clock, not with the instructions: within
\* one 60 Hz period after LD DT,Vx stored v, whatever the number of steps
\* executed, dt has been decremented at most once, dt >= v - 1.
C5_TimerDecayPerPeriod ==
    (ldClock.set /\ tickStart - ldClock.at < TimerPeriod) => dt >= ldClock.v - 1

\* the operands of the last DRW Vx,Vy,n as the instruction found them
DrawX == pre.regs[n1(lastOp)]
DrawY == pre.regs[n2(lastOp)]
DrawN == n3(lastOp)
\* the framebuffer rows the last draw covers
DrawnRows == {(DrawY + r) % 32 : r \in 0..(DrawN - 1)}
\* some pixel that was set before the last instruction is now unset
PixelErased ==
    \E idx \in 0..(ScreenBytes - 1) :
        BitAnd(pre.fb[idx], 255 - screenPixels[idx]) # 0

\* C6: Dxyn leaves the collision result in VF: VF = 1 if and only if some
\* framebuffer bit that was 1 before the draw is 0 after it, VF = 0 otherwise.
C6_CollisionInVF ==
    (Stepped /\ IsDRW(lastOp)) => regs[15] = flag(PixelErased)

\* C7: the same Dxyn executed twice in a row, with I, Vx, Vy and the sprite
\* bytes unchanged, x in 0..63, y in 0..31 and 1..15 sprite bytes, leaves
\* every framebuffer byte as it was before the first draw.
C7_DoubleDrawRestores ==
    ( /\ Stepped
      /\ IsDRW(lastOp)
      /\ pre2.op = lastOp
      /\ DrawN >= 1
      /\ DrawX \in 0..63
      /\ DrawY \in 0..31
      /\ pre.i = pre2.m.i
      /\ DrawX = pre2.m.regs[n1(lastOp)]
      /\ DrawY = pre2.m.regs[n2(lastOp)]
      /\ memDelta = {} )
    => screenPixels = pre2.m.fb

\* the framebuffer after XOR-ing the sprite bytes at (x, y), x not a
\* multiple of 8: row r of the sprite puts b >> k into byte row*8 + x div 8
\* and (b << (8 - k)) mod 256 into the byte after it
SplitDraw(fb0, bytes, x, y) ==
    [idx \in 0..(ScreenBytes - 1) |->
        LET k     == x % 8
            left  == {r \in 1..Len(bytes) :
                         ((y + r - 1) % 32) * 8 + (x \div 8) = idx}
            right == {r \in 1..Len(bytes) :
                         ((y + r - 1) % 32) * 8 + (x \div 8) + 1 = idx}
            lv    == IF left = {} THEN 0
                     ELSE Shr(bytes[CHOOSE r \in left : TRUE], k)
            rv    == IF right = {} THEN 0
                     ELSE Shl(bytes[CHOOSE r \in right : TRUE], 8 - k) % U8
        IN  BitXor(BitXor(fb0[idx], lv), rv)]

\* C8: for x < 56 with k = x mod 8 # 0, a draw XORs b >> k into byte
\* r*8 + x div 8 and (b << (8 - k)) mod 256 into the next byte, each with
\* that byte's own previous value, and changes no other byte; so FF at (4, 0)
\* on a cleared screen gives byte 0 = 0F, byte 1 = F0, all others 0.
C8_ByteBoundarySplit ==
    (Stepped /\ IsDRW(lastOp) /\ DrawX < 56 /\ DrawX % 8 # 0) =>
        screenPixels = SplitDraw(pre.fb, spriteRead, DrawX, DrawY)

C10_SpriteFromIndex ==
    (Stepped /\ IsDRW(lastOp) /\ pre.i \in 0..(MemSize - 1)) =>
        /\ spriteRead = [k \in 1..DrawN |-> RB(memory, (pre.i + k - 1) % U16, 0)]
        /\ i = pre.i
        /\ memDelta = {}

\* the last instruction fetched is 8xyn of the arithmetic group with this n,
\* on a register x in 0..14, and has run to the end of op
IsALU(n) ==
    Stepped /\ n0(lastOp) = 8 /\ n3(lastOp) = n /\ n1(lastOp) \in 0..14
\* the operands of the last 8xyn as the instruction found them
AluVx == pre.regs[n1(lastOp)]
AluVy == pre.regs[n2(lastOp)]

\* C11: 8xy4, for x in 0..14 and every y (y = x and y = F included): after
\* the step Vx = (Vx_old + Vy_old) mod 256 and VF = 1 if Vx_old + Vy_old > 255,
\* else VF = 0.
C11_AddCarry ==
    IsALU(4) =>
        /\ regs[n1(lastOp)] = (AluVx + AluVy) % U8
        /\ regs[15] = flag(AluVx + AluVy > 255)

\* C12: 8xy5, for x in 0..14 and every y (y = F included): after the step
\* Vx = (Vx_old - Vy_old) mod 256, computed from the values the registers
\* held before the instruction, and VF = 1 if Vx_old > Vy_old, else VF = 0.
C12_SubBorrow ==
    IsALU(5) =>
        /\ regs[n1(lastOp)] = (AluVx + U8 - AluVy) % U8
        /\ regs[15] = flag(AluVx > AluVy)

\* C13: 8xyE, for x in 0..14: after the step VF is the most significant bit
\* of the old Vx and Vx = (Vx_old << 1) mod 256; VF = 1 whenever Vx_old >= 128.
C13_ShlMsb ==
    IsALU(14) =>
        /\ regs[15] = (AluVx \div 128) % 2
        /\ regs[n1(lastOp)] = (AluVx * 2) % U8

\* the byte that address a held before the last instruction
PreMem(a) ==
    IF \E d \in memDelta : d[1] = a
    THEN (CHOOSE d \in memDelta : d[1] = a)[2]
    ELSE memory[a]
\* the last instruction fetched is Fx with this low byte and has run to the
\* end of op
IsMISC(low) == Stepped /\ n0(lastOp) = 15 /\ kk(lastOp) = low
\* an explicit program store: Fx33 or Fx55
IsStore(o) == o # -1 /\ n0(o) = 15 /\ kk(o) \in {51, 85}

\* C14: Fx55 writes exactly V0..Vx (x the register index of the opcode,
\* inclusive) to mem[I..I+x] and changes no other memory byte and no
\* register; Fx65 loads exactly V0..Vx from mem[I..I+x] and changes no other
\* register and no memory; the count depends on the index x only, never on
\* the value of Vx, and no register index above 15 is accessed.
C14_TransferRange ==
    /\ IsMISC(85) =>
          /\ \A j \in 0..n1(lastOp) :
                memory[(pre.i + j) % MemSize] = pre.regs[j]
          /\ \A d \in memDelta :
                \E j \in 0..n1(lastOp) : d[1] = (pre.i + j) % MemSize
          /\ regs = pre.regs
          /\ ~ub
    /\ IsMISC(101) =>
          /\ \A j \in 0..n1(lastOp) :
                regs[j] = PreMem((pre.i + j) % MemSize)
          /\ \A r \in (n1(lastOp) + 1)..(NumRegs - 1) : regs[r] = pre.regs[r]
          /\ memDelta = {}
          /\ ~ub

\* row k (0..4) of the glyph of digit d: the k-th hexadecimal digit of the
\* glyph's number, in the high nibble
GlyphByte(d, k) == ((FontNumbers[d + 1] \div Pow2(4 * (4 - k))) % 16) * 16

\* C15: Fx29 with Vx in 0..15 leaves I = Vx * 5, and mem[I..I+4] are the
\* five font bytes of the hexadecimal digit Vx.
C15_FontAddress ==
    (IsMISC(41) /\ pre.regs[n1(lastOp)] \in 0..15) =>
        /\ i = pre.regs[n1(lastOp)] * 5
        /\ \A k \in 0..4 : memory[i + k] = GlyphByte(pre.regs[n1(lastOp)], k)

\* C16: Fx1E leaves I = I_old + Vx, the arithmetic sum, and every general
\* register unchanged.
C16_IndexAdd ==
    IsMISC(30) =>
        /\ i = pre.i + pre.regs[n1(lastOp)]
        /\ regs = pre.regs

\* addresses 0..79 hold the sixteen glyphs in digit order
FontIntact == \A a \in 0..79 : memory[a] = GlyphByte(a \div 5, a % 5)

\* C17: after construction addresses 0..79 hold the sixteen five-byte glyphs
\* in digit order, pixel bits in the high nibble (digit 0 = F0 90 90 90 F0),
\* and all other memory is zero; loading the program leaves the glyphs in
\* place; and no step other than a program store (Fx33, Fx55) changes a
\* byte of addresses 0..79.
C17_FontLoad ==
    /\ phase = "load" =>
          /\ FontIntact
          /\ [k \in 1..5 |-> memory[k - 1]] = << 240, 144, 144, 144, 240 >>
          /\ \A a \in 80..(MemSize - 1) : memory[a] = 0
    /\ (phase = "run" /\ lastOp = -1) => FontIntact
    /\ \A d \in memDelta : d[1] \in 0..79 => IsStore(lastOp)

\* an instruction that is not a store, stepped right after a store, with the
\* glyphs in place
C17_Witness ==
    /\ Stepped
    /\ ~IsStore(lastOp)
    /\ IsStore(pre2.op)
    /\ FontIntact

\* the decimal digit k (0 hundreds, 1 tens, 2 ones) of the byte v
Digit(v, k) == (v \div (IF k = 0 THEN 100 ELSE IF k = 1 THEN 10 ELSE 1)) % 10

\* C19: memory addresses wrap modulo 4096: the word fetched is the one at
\* pc mod 4096 and (pc + 1) mod 4096, also when pc has run past 0xFFF, and
\* Fx33 stores its digits at (I + k) mod 4096; no access falls outside the
\* store.
C19_WrapsMod4096 ==
    /\ lastOp # -1 =>
          lastOp = PreMem(pre.pc % MemSize) * 256
                     + PreMem((pre.pc + 1) % MemSize)
    /\ IsMISC(51) =>
          \A k \in 0..2 :
              memory[(pre.i + k) % MemSize] = Digit(pre.regs[n1(lastOp)], k)

\* the instruction word o is not in the instruction table
Unrecognized(o) ==
    /\ o # -1
    /\ \/ n0(o) = 0 /\ o \notin {224, 238}
       \/ n0(o) \in {5, 9} /\ n3(o) # 0
       \/ n0(o) = 8 /\ n3(o) \in (8..13) \cup {15}
       \/ n0(o) = 14 /\ kk(o) \notin {158, 161}
       \/ n0(o) = 15 /\ kk(o) \notin {7, 10, 21, 24, 30, 41, 51, 85, 101}

\* C18: stepping a word that is not in the instruction table (0nnn other
\* than 00E0 and 00EE, 5xyN and 9xyN with N # 0, 8xyN with N in 8..D or F,
\* Ex and Fx with an unlisted low byte) leaves the registers, I, the call
\* stack, memory and the framebuffer unchanged and advances pc by exactly 2.
C18_UnknownIsNoOp ==
    (Stepped /\ Unrecognized(lastOp)) =>
        /\ regs = pre.regs
        /\ i = pre.i
        /\ stack = pre.stack
        /\ memDelta = {}
        /\ screenPixels = pre.fb
        /\ pc = pre.pc + 2

\* C20: the step is total: no instruction word steps into undefined
\* behaviour; 00EE is never a pop of the empty call stack, Ex9E and ExA1
\* never index the keypad with a value above 15, and Fx0A examines the
\* keypad indices 0..15 only.
C20_StepIsTotal ==
    /\ ~ub
    /\ (Stepped /\ IsRET(lastOp)) => pre.stack # << >>
    /\ lastOp # -1 /\ IsLDK(lastOp) => keyScan \in 0..(NumKeys - 1)

\* the framebuffer indices the last draw uses, in the later and in the
\* earlier iteration of predrawSurf
DrawIndices ==
    UNION {screenIndices(DrawX, DrawY, k) : k \in 0..(DrawN - 1)}
DrawIndicesEarly ==
    UNION {screenIndicesEarly(DrawX, DrawY, k) : k \in 0..(DrawN - 1)}

\* C21: in the drawing routine that reduces the row to (y + i) mod 32 every
\* framebuffer byte that Dxyn reads or writes has an index in 0..255, for
\* every Vx and Vy in 0..255 and every n in 0..15, in the aligned branch,
\* the x >= 56 branch and the general unaligned branch, and the bytes a draw
\* changes are among them; the earlier iteration, with (y + i) * 8, leaves
\* 0..255 as soon as a row y + i reaches 32.
C21_IndexBound ==
    (Stepped /\ IsDRW(lastOp)) =>
        /\ DrawIndices \subseteq 0..(ScreenBytes - 1)
        /\ \A idx \in 0..(ScreenBytes - 1) :
              screenPixels[idx] # pre.fb[idx] => idx \in DrawIndices
        /\ ~(DrawIndicesEarly \subseteq 0..(ScreenBytes - 1))
              <=> (DrawN >= 1 /\ DrawY + DrawN > 32)

\* a draw of 15 rows at Vx = 255, Vy = 255 that changed the framebuffer
C21_Witness ==
    /\ Stepped
    /\ IsDRW(lastOp)
    /\ DrawX = 255
    /\ DrawY = 255
    /\ DrawN = 15
    /\ screenPixels # pre.fb

====
